---------------------------- MODULE Spec2Model ----------------------------
(***************************************************************************)
(* hamming-gui: the Stage of src/main.rs.  Every frame, Stage::draw        *)
(* re-encodes the message with the extended Hamming (16,11) code, resizes  *)
(* the error mask, XORs the mask into the encoded stream, decodes the      *)
(* result, and then runs the egui closure that handles the probability     *)
(* text, the "Randomize Error" button and the message text and renders     *)
(* the five panels.                                                        *)
(*                                                                         *)
(* Strings are modelled by their UTF-8 bytes (String::as_bytes is a view   *)
(* of them), bytes by the naturals 0..255, bit b of a byte by Lsb0 order.  *)
(* The codec (hamming::encode, hamming::decode, hamming::code::EH16_11)    *)
(* is a dependency whose source is not part of src/; it is modelled from   *)
(* sections 3, 4.1 and 4.2 of the specification.                           *)
(***************************************************************************)
EXTENDS Naturals, Sequences, FiniteSets

VARIABLES
    message_in,   \* Stage.message_in: the UTF-8 bytes of the message text
    encoded,      \* Stage.encoded
    error,        \* Stage.error: the error mask
    with_error,   \* Stage.with_error
    message_out,  \* Stage.message_out: Option<String>
    code,         \* Stage.code
    prob_str,     \* Stage.prob_str
    decoded,      \* the Result of decode(..) at line 50 of the last recompute
    clicked,      \* whether .clicked() was true in the last frame (line 65)
    edited,       \* whether the message text was edited in the last frame
    prev_quiet,   \* whether the frame before the last had no click and no edit
    resized,      \* what line 44 did in the last frame: same, truncated, extended
    aborted,      \* whether an unwrap() panicked
    pc,           \* position of the codec harness; "gui" while the Stage runs
    flipped,      \* codec harness: the bit positions flipped in one codeword
    flip_cw       \* codec harness: the codeword (1-based) the flips are in

vars == <<message_in, encoded, error, with_error, message_out, code, prob_str,
          decoded, clicked, edited, prev_quiet, resized, aborted, pc, flipped,
          flip_cw>>

(***************************************************************************)
(* Bounds of the model.                                                    *)
(***************************************************************************)
\* Longest message text of the Stage, in bytes.
MaxLen == 2
\* Longest byte sequence handed to the codec harness.
MaxMsgLen == 3
\* Only the first FlipSpan draws of a Randomize may come out low.
FlipSpan == 2

(***************************************************************************)
(* Bytes and bits.                                                         *)
(***************************************************************************)
Min(a, b) == IF a <= b THEN a ELSE b

\* Bit i (Lsb0) of the natural b.
Bit(b, i) == (b \div (2 ^ i)) % 2

\* The byte whose bit t (Lsb0) is f[off + t], t in 0..7.
PackByte(f, off) ==
    f[off] + 2 * f[off + 1] + 4 * f[off + 2] + 8 * f[off + 3]
    + 16 * f[off + 4] + 32 * f[off + 5] + 64 * f[off + 6] + 128 * f[off + 7]

RECURSIVE BitXor(_, _)
BitXor(a, b) ==
    IF a = 0 THEN b
    ELSE IF b = 0 THEN a
    ELSE ((a + b) % 2) + 2 * BitXor(a \div 2, b \div 2)

\* Parity (XOR-reduction) of the bits f[p], p in S.
Parity(f, S) == Cardinality({p \in S : f[p] = 1}) % 2

\* Result<T, E>: only the discriminant and the Ok payload are observed.
Ok(v) == [ok |-> TRUE, val |-> v]
Err == [ok |-> FALSE, val |-> <<>>]

\* Option<String>.
Some(s) == [some |-> TRUE, text |-> s]
None == [some |-> FALSE, text |-> <<>>]

(***************************************************************************)
(* The codec, from the specification (sections 3, 4.1, 4.2).               *)
(***************************************************************************)
\* hamming::code::EH16_11, the extended Hamming (16,11) descriptor.
EH16_11 == [data_bits |-> 11, total_bits |-> 16]

\* The powers of two below 2^8.
Pow2 == {1, 2, 4, 8, 16, 32, 64, 128}

IsPow2(p) == p \in Pow2

\* Least k with 2^k >= n, for n in 1..128.
CeilLog2(n) == Cardinality({q \in Pow2 : q < n})

\* Positions 1..total_bits-1 that carry data (not a power of two), ascending.
DataPositions(c) ==
    SelectSeq([p \in 1..(c.total_bits - 1) |-> p], LAMBDA p : ~IsPow2(p))

\* The message as a bitstream, each byte least significant bit first.
MessageBits(bytes) ==
    [j \in 1..(8 * Len(bytes)) |-> Bit(bytes[((j - 1) \div 8) + 1], (j - 1) % 8)]

\* Group g (1-based) of data_bits bits, the last one zero-padded.
DataGroup(bits, g, c) ==
    [j \in 1..c.data_bits |->
        IF (g - 1) * c.data_bits + j <= Len(bits)
        THEN bits[(g - 1) * c.data_bits + j] ELSE 0]

\* Positions 1..total_bits-1 whose index has bit k set: the group of parity 2^k.
ParityGroup(k, c) == {p \in 1..(c.total_bits - 1) : Bit(p, k) = 1}

\* One codeword, a function 0..total_bits-1 -> bit: the data bits at the
\* data positions in order, parity 2^k over its group, and at position 0 the
\* overall parity over all other bits.
EncodeCodeword(d, c) ==
    LET base == [p \in 1..(c.total_bits - 1) |->
                    IF IsPow2(p) THEN 0
                    ELSE d[p - Cardinality({q \in Pow2 : q <= p})]]
        ham == [p \in 1..(c.total_bits - 1) |->
                    IF IsPow2(p)
                    THEN Parity(base, ParityGroup(CeilLog2(p), c))
                    ELSE base[p]]
    IN  [p \in 0..(c.total_bits - 1) |->
            IF p = 0 THEN Parity(ham, 1..(c.total_bits - 1)) ELSE ham[p]]

\* encode(bytes, code): always succeeds; codewords in chunk order, each
\* total_bits/8 bytes.
encode(bytes, c) ==
    LET bits == MessageBits(bytes)
        n == (Len(bits) + c.data_bits - 1) \div c.data_bits
        w == c.total_bits \div 8
        cws == [g \in 1..n |-> EncodeCodeword(DataGroup(bits, g, c), c)]
    IN  Ok([i \in 1..(n * w) |->
               PackByte(cws[((i - 1) \div w) + 1], 8 * ((i - 1) % w))])

\* Codeword g (1-based) of a received stream.
Codeword(bytes, g, c) ==
    [p \in 0..(c.total_bits - 1) |->
        Bit(bytes[(g - 1) * (c.total_bits \div 8) + (p \div 8) + 1], p % 8)]

\* The combined result of the single-bit parity checks: check k, the parity
\* of group 2^k with its parity bit, contributes 2^k.
RECURSIVE SyndromeFrom(_, _, _)
SyndromeFrom(cw, k, c) ==
    IF 2 ^ k >= c.total_bits THEN 0
    ELSE Parity(cw, ParityGroup(k, c)) * (2 ^ k) + SyndromeFrom(cw, k + 1, c)

Syndrome(cw, c) == SyndromeFrom(cw, 0, c)

\* Whether the overall parity check mismatches.
OverallMismatch(cw, c) == Parity(cw, 0..(c.total_bits - 1)) = 1

\* The row of the SECDED decision table a received codeword falls in.
BranchOf(syn, mismatch) ==
    IF syn = 0
    THEN IF mismatch THEN "parity_only" ELSE "clean"
    ELSE IF mismatch THEN "single" ELSE "double"

Branch(cw, c) == BranchOf(Syndrome(cw, c), OverallMismatch(cw, c))

\* The codeword after the correction its branch asks for.
Corrected(cw, c) ==
    LET syn == Syndrome(cw, c)
    IN  IF BranchOf(syn, OverallMismatch(cw, c)) = "single"
        THEN [cw EXCEPT ![syn] = 1 - @]
        ELSE cw

\* decode(bytes, code): Uncorrectable if any codeword is in the double branch;
\* otherwise the payload bits regrouped into bytes, the trailing partial byte
\* dropped.
decode(bytes, c) ==
    LET n == (8 * Len(bytes)) \div c.total_bits
        dp == DataPositions(c)
        cws == [g \in 1..n |-> Codeword(bytes, g, c)]
        fix == [g \in 1..n |-> Corrected(cws[g], c)]
        bits == [j \in 0..(n * c.data_bits + 7) |->
                    IF j < n * c.data_bits
                    THEN fix[(j \div c.data_bits) + 1][dp[(j % c.data_bits) + 1]]
                    ELSE 0]
        nb == (n * c.data_bits) \div 8
    IN  IF \E g \in 1..n : Branch(cws[g], c) = "double"
        THEN Err
        ELSE Ok([i \in 1..nb |-> PackByte(bits, 8 * (i - 1))])

(***************************************************************************)
(* std: from_utf8 and str::parse::<f64>.                                   *)
(***************************************************************************)
IsCont(b) == 128 <= b /\ b <= 191

\* Whether bytes[i..] is a sequence of well-formed UTF-8 scalar values.
RECURSIVE ValidUtf8From(_, _)
ValidUtf8From(bytes, i) ==
    LET n == Len(bytes)
        b0 == bytes[i]
        cont(k) == i + k <= n /\ IsCont(bytes[i + k])
    IN  IF i > n THEN TRUE
        ELSE IF b0 <= 127 THEN ValidUtf8From(bytes, i + 1)
        ELSE IF 194 <= b0 /\ b0 <= 223
             THEN cont(1) /\ ValidUtf8From(bytes, i + 2)
        ELSE IF 224 <= b0 /\ b0 <= 239
             THEN /\ cont(1) /\ cont(2)
                  /\ (b0 = 224 => bytes[i + 1] >= 160)
                  /\ (b0 = 237 => bytes[i + 1] <= 159)
                  /\ ValidUtf8From(bytes, i + 3)
        ELSE IF 240 <= b0 /\ b0 <= 244
             THEN /\ cont(1) /\ cont(2) /\ cont(3)
                  /\ (b0 = 240 => bytes[i + 1] >= 144)
                  /\ (b0 = 244 => bytes[i + 1] <= 143)
                  /\ ValidUtf8From(bytes, i + 4)
        ELSE FALSE

from_utf8(bytes) == IF ValidUtf8From(bytes, 1) THEN Ok(bytes) ELSE Err

\* The probability texts the user can leave in the text field.
ProbStrings == {"", "abc", "NaN", "0", "0.5", "1", "1.5"}

\* An f64 in tenths; nan marks NaN.
F64(t) == [nan |-> FALSE, tenths |-> t]
NaN == [nan |-> TRUE, tenths |-> 0]

\* str::parse::<f64>.
ParseF64(s) ==
    CASE s = "0" -> Ok(F64(0))
      [] s = "1" -> Ok(F64(10))
      [] s = "0.5" -> Ok(F64(5))
      [] s = "1.5" -> Ok(F64(15))
      [] s = "NaN" -> Ok(NaN)
      [] OTHER -> Err

\* (0.0..=1.0).contains(&prob): both comparisons are false for NaN.
InUnitRange(x) == ~x.nan /\ 0 <= x.tenths /\ x.tenths <= 10

\* Mutant of DrawBelow: draw <= prob.
DrawBelowOrEqual(draw, x) == ~x.nan /\ draw <= x.tenths

\* draw < prob for a draw in tenths; false when prob is NaN.
DrawBelow(draw, x) == ~x.nan /\ draw < x.tenths

\* Uniform::new(0.0, 1.0) samples [0,1): the least draw and a draw above
\* every probability below one, in tenths.
LowDraw == 0
HighDraw == 9

(***************************************************************************)
(* Stage::draw, piece by piece.                                            *)
(***************************************************************************)
\* Mutant of Resize: a length change regenerates the mask instead of resizing it.
ResizeRegenerates(v, n) == IF n = Len(v) THEN v ELSE [i \in 1..n |-> 0]

\* self.error.resize_with(n, || 0)
Resize(v, n) == [i \in 1..n |-> IF i <= Len(v) THEN v[i] ELSE 0]

ResizeKind(v, n) ==
    IF n = Len(v) THEN "same" ELSE IF n < Len(v) THEN "truncated" ELSE "extended"

\* Mutant of Clear: the clear() is missing.
ClearMissing(v) == v

\* self.with_error.clear()
Clear(v) == <<>>

\* Mutant of XorByte: b | e.
XorByteOr(b, e) == BitXor(b, e) + ((b + e - BitXor(b, e)) \div 2)

\* Mutant of XorByte: b.wrapping_add(e).
XorByteAdd(b, e) == (b + e) % 256

\* b ^ e
XorByte(b, e) == BitXor(b, e)

\* for (b, e) in zip(encoded, error) { with_error.push(b ^ e) }
XorLoop(w, enc, err) ==
    w \o [i \in 1..Min(Len(enc), Len(err)) |-> XorByte(enc[i], err[i])]

\* decode(..).ok().and_then(|d| from_utf8(&d).ok().map(String::from))
ToText(dec) ==
    IF dec.ok /\ from_utf8(dec.val).ok THEN Some(from_utf8(dec.val).val) ELSE None

\* Mutant of Enabled: the button is added with ui.add, never disabled.
EnabledAlways(s) == TRUE

\* Mutant of Enabled: the range check is missing.
EnabledNoRange(s) == ParseF64(s).ok

\* The button is enabled iff the text parses to a number in [0.0, 1.0].
Enabled(s) == ParseF64(s).ok /\ InUnitRange(ParseF64(s).val)

\* The draw of bit j of the mask: low exactly for the positions in S.
DrawAt(j, S) == IF j \in S THEN LowDraw ELSE HighDraw

\* bit.set(rng.sample(distr) < prob)
MaskBit(draw, prob) == IF DrawBelow(draw, prob) THEN 1 ELSE 0

\* Every bit of the mask (BitVec<u8, Lsb0> over the bytes of err) is set from
\* its own draw; the vector keeps its length.
Randomize(err, prob, S) ==
    LET bits == [j \in 0..(8 * Len(err) - 1) |-> MaskBit(DrawAt(j, S), prob)]
    IN  [i \in 1..Len(err) |-> PackByte(bits, 8 * (i - 1))]

\* The sets of positions whose draw may come out low.
LowDrawSets == SUBSET (0..(FlipSpan - 1))

\* The message texts: strings over 'A' and U+00E9 of at most MaxLen bytes.
Chars == {<<65>>, <<195, 169>>}

RECURSIVE Strings(_)
Strings(n) ==
    IF n = 0 THEN {<<>>}
    ELSE Strings(n - 1) \cup
         {s \o ch : s \in Strings(n - 1), ch \in {c \in Chars : TRUE}}

Messages == {s \in Strings(MaxLen) : Len(s) <= MaxLen}

\* What the five panels render at the end of the frame: the fields as they
\* are after the handlers ran.
Shown ==
    [encoded |-> encoded, error |-> error, with_error |-> with_error,
     message_out |-> message_out]

(***************************************************************************)
(* The Stage.                                                              *)
(***************************************************************************)
\* Mutant of StageNew: the session is created with the plain (15,11) code.
StageNewPlainHamming ==
    [message_in |-> <<>>, encoded |-> <<>>, error |-> <<>>,
     with_error |-> <<>>, message_out |-> Some(<<>>),
     code |-> [data_bits |-> 11, total_bits |-> 15], prob_str |-> ""]

\* Stage::new
StageNew ==
    [message_in |-> <<>>, encoded |-> <<>>, error |-> <<>>,
     with_error |-> <<>>, message_out |-> Some(<<>>), code |-> EH16_11,
     prob_str |-> ""]

Init ==
    /\ message_in = StageNew.message_in
    /\ encoded = StageNew.encoded
    /\ error = StageNew.error
    /\ with_error = StageNew.with_error
    /\ message_out = StageNew.message_out
    /\ code = StageNew.code
    /\ prob_str = StageNew.prob_str
    /\ decoded = Ok(<<>>)
    /\ clicked = FALSE
    /\ edited = FALSE
    /\ prev_quiet = FALSE
    /\ resized = "same"
    /\ aborted = FALSE
    /\ pc = "gui"
    /\ flipped = {}
    /\ flip_cw = 0

\* Lines 43-52: the recompute at the head of Stage::draw, from the fields it
\* reads.  enc is the Result of encode before its unwrap().
Recompute(msg, err, w, c) ==
    LET enc_res == encode(msg, c)
        enc == enc_res.val
        err1 == Resize(err, Len(enc))
        we == XorLoop(Clear(w), enc, err1)
        dec == decode(we, c)
    IN  [enc |-> enc_res, encoded |-> enc, error |-> err1, with_error |-> we,
         decoded |-> dec, message_out |-> ToText(dec),
         resized |-> ResizeKind(err, Len(enc))]

\* One frame: the recompute, then the handlers of the closure.  new_prob and
\* new_msg are the texts the two text fields hold after this frame's key
\* events, press whether the pointer was released over the button, S the
\* positions whose draw comes out low.
Draw ==
    /\ pc = "gui"
    /\ ~aborted
    /\ \E r \in {Recompute(message_in, error, with_error, code)} :
       \E new_prob \in ProbStrings :
       \E click \in {press /\ Enabled(new_prob) : press \in BOOLEAN} :
            IF ~r.enc.ok \/ (click /\ ~ParseF64(new_prob).ok)
            THEN /\ aborted' = TRUE
                 /\ UNCHANGED <<message_in, encoded, error, with_error,
                                message_out, code, prob_str, decoded,
                                clicked, edited, prev_quiet, resized>>
            ELSE /\ encoded' = r.encoded
                 /\ with_error' = r.with_error
                 /\ decoded' = r.decoded
                 /\ message_out' = r.message_out
                 /\ prob_str' = new_prob
                 /\ IF click
                    THEN error' \in {Randomize(r.error, ParseF64(new_prob).val, S) :
                                       S \in LowDrawSets}
                    ELSE error' = r.error
                 /\ \E new_msg \in Messages :
                      /\ message_in' = new_msg
                      /\ edited' = (new_msg # message_in)
                 /\ clicked' = click
                 /\ prev_quiet' = (~clicked /\ ~edited)
                 /\ resized' = r.resized
                 /\ UNCHANGED <<code, aborted>>
    /\ UNCHANGED <<pc, flipped, flip_cw>>

Next == Draw

Spec == Init /\ [][Next]_vars

(***************************************************************************)
(* The codec harness: encode, flip one or two bits of one codeword through *)
(* the mask, XOR and decode, over byte sequences of at most MaxMsgLen      *)
(* bytes.  It walks lines 43-52 of Stage::draw one call at a time.         *)
(***************************************************************************)
CodecBytes == {0, 65, 255}

RECURSIVE ByteSeqs(_)
ByteSeqs(n) ==
    IF n = 0 THEN {<<>>}
    ELSE ByteSeqs(n - 1) \cup
         {Append(s, b) : s \in {t \in ByteSeqs(n - 1) : Len(t) = n - 1},
                         b \in CodecBytes}

CodecInputs == ByteSeqs(MaxMsgLen)

\* The mask of n bytes whose set bits are the positions F of codeword g.
FlipMask(n, g, F, c) ==
    LET bits == [j \in 0..(8 * n - 1) |->
                    IF (j \div c.total_bits) + 1 = g /\ (j % c.total_bits) \in F
                    THEN 1 ELSE 0]
    IN  [i \in 1..n |-> PackByte(bits, 8 * (i - 1))]

CodecInit ==
    /\ message_in \in CodecInputs
    /\ encoded = StageNew.encoded
    /\ error = StageNew.error
    /\ with_error = StageNew.with_error
    /\ message_out = StageNew.message_out
    /\ code = StageNew.code
    /\ prob_str = StageNew.prob_str
    /\ decoded = Ok(<<>>)
    /\ clicked = FALSE
    /\ edited = FALSE
    /\ prev_quiet = FALSE
    /\ resized = "same"
    /\ aborted = FALSE
    /\ pc = "input"
    /\ flipped = {}
    /\ flip_cw = 0

\* Lines 43-44: encode, and the mask resized (all zero) to the encoded length.
CodecEncode ==
    /\ pc = "input"
    /\ encode(message_in, code).ok
    /\ encoded' = encode(message_in, code).val
    /\ error' = Resize(error, Len(encoded'))
    /\ pc' = "encoded"
    /\ UNCHANGED <<message_in, with_error, message_out, code, prob_str, decoded,
                   clicked, edited, prev_quiet, resized, aborted, flipped,
                   flip_cw>>

\* The mask gets one or two bits of one codeword.
CodecFlip ==
    /\ pc = "encoded"
    /\ \E g \in 1..((8 * Len(encoded)) \div code.total_bits),
          i \in 0..(code.total_bits - 1), j \in 0..(code.total_bits - 1) :
        /\ i <= j
        /\ flipped' = {i, j}
        /\ flip_cw' = g
        /\ error' = FlipMask(Len(encoded), g, {i, j}, code)
    /\ pc' = "flipped"
    /\ UNCHANGED <<message_in, encoded, with_error, message_out, code, prob_str,
                   decoded, clicked, edited, prev_quiet, resized, aborted>>

\* Lines 46-52: XOR the mask in, decode, convert to text.
CodecDecode ==
    /\ pc \in {"encoded", "flipped"}
    /\ \E w \in {XorLoop(Clear(with_error), encoded, error)} :
       \E d \in {decode(w, code)} :
        /\ with_error' = w
        /\ decoded' = d
        /\ message_out' = ToText(d)
    /\ pc' = "decoded"
    /\ UNCHANGED <<message_in, encoded, error, code, prob_str, clicked, edited,
                   prev_quiet, resized, aborted, flipped, flip_cw>>

CodecNext == CodecEncode \/ CodecFlip \/ CodecDecode

SpecCodec == CodecInit /\ [][CodecNext]_vars

(***************************************************************************)
(* The claims.                                                             *)
(***************************************************************************)
\* C1 (as stated): decoding the encoding of any byte sequence under an
\* all-zero mask succeeds with exactly that byte sequence.
C1_RoundTrip ==
    (pc = "decoded" /\ flipped = {}) => decoded = Ok(message_in)

\* C2: two distinct bits of one codeword flipped together put that codeword
\* in the branch "syndrome nonzero, overall parity matches", and the decode of
\* the whole message fails; no byte sequence is returned.
C2_DoubleBitDetected ==
    (pc = "decoded" /\ Cardinality(flipped) = 2) =>
        /\ ~decoded.ok
        /\ message_out = None
        /\ LET cw == Codeword(with_error, flip_cw, code)
           IN  Syndrome(cw, code) # 0 /\ ~OverallMismatch(cw, code)

\* C2's case: the overall parity bit and a data bit of a codeword with data
\* were flipped together and the decode ran.
C2_Witness ==
    /\ pc = "decoded"
    /\ flipped = {0, 3}
    /\ flip_cw = 2
    /\ message_in = <<65, 255, 0>>
    /\ ~decoded.ok

\* C3: one bit of one codeword flipped alone (data, position parity or
\* overall parity): the decode succeeds with the payload the unflipped stream
\* decodes to.
C3_SingleBitCorrected ==
    (pc = "decoded" /\ Cardinality(flipped) = 1) =>
        /\ decoded.ok
        /\ decoded = decode(encoded, code)

\* C3's case: a data bit of the second codeword was flipped, the stream
\* handed to decode differs from the encoded one, and the decode succeeded.
C3_Witness ==
    /\ pc = "decoded"
    /\ flipped = {5}
    /\ flip_cw = 2
    /\ message_in = <<65, 255>>
    /\ with_error # encoded
    /\ decoded.ok

\* C4 (as stated): in every frame the panels show corrupted = encoded XOR
\* mask, byte for byte, all three of the same length.
C4_ShownXor ==
    pc = "gui" =>
        /\ Len(Shown.error) = Len(Shown.encoded)
        /\ Len(Shown.with_error) = Len(Shown.encoded)
        /\ \A i \in 1..Len(Shown.encoded) :
             Shown.with_error[i] = BitXor(Shown.encoded[i], Shown.error[i])

\* C5: a frame without a Randomize click leaves the mask as it was up to the
\* new encoded length: the common prefix is unchanged, every added byte is 0.
C5_MaskOnlyResized ==
    [][(pc = "gui" /\ ~aborted' /\ ~clicked') =>
          /\ Len(error') = Len(encoded')
          /\ \A i \in 1..Len(error') :
               error'[i] = IF i <= Len(error) THEN error[i] ELSE 0]_vars

\* C5's case: a frame without a click extended a mask that has set bits.
C5_Witness ==
    /\ pc = "gui"
    /\ ~clicked
    /\ resized = "extended"
    /\ \E i \in 1..Len(error) : error[i] # 0
    /\ error[Len(error)] = 0

\* C6: a recompute ends with text or with None, never with a panic; an
\* uncorrectable codeword gives None, and so do recovered bytes that are not
\* valid UTF-8; text, when there is some, is the recovered bytes.
C6_TextOrNone ==
    pc = "gui" =>
        /\ ~aborted
        /\ (\E g \in 1..(Len(with_error) \div 2) :
              LET cw == Codeword(with_error, g, code)
              IN  Syndrome(cw, code) # 0 /\ ~OverallMismatch(cw, code))
           => (~decoded.ok /\ message_out = None)
        /\ (decoded.ok /\ ~ValidUtf8From(decoded.val, 1)) => message_out = None
        /\ message_out.some =>
             (decoded.ok /\ message_out.text = decoded.val
                /\ ValidUtf8From(message_out.text, 1))
        /\ (decoded.ok /\ ValidUtf8From(decoded.val, 1)) => message_out.some

\* C6's case: the decode succeeded with bytes that are not valid UTF-8 and
\* the outcome is None.
C6_Witness ==
    /\ pc = "gui"
    /\ decoded.ok
    /\ Len(decoded.val) > 0
    /\ ~ValidUtf8From(decoded.val, 1)
    /\ message_out = None
    /\ ~aborted

\* C7: after a frame with no click and no edit, the next recompute gives the
\* same encoded stream, corrupted stream, decode result and outcome, and the
\* same mask.
C7_Idempotent ==
    [][(pc = "gui" /\ ~clicked /\ ~edited /\ ~aborted') =>
          /\ encoded' = encoded
          /\ with_error' = with_error
          /\ decoded' = decoded
          /\ message_out' = message_out
          /\ (~clicked' => error' = error)]_vars

\* C7's case: two frames in a row had no click and no edit, with a message
\* and a mask that has set bits.
C7_Witness ==
    /\ pc = "gui"
    /\ prev_quiet
    /\ ~clicked
    /\ ~edited
    /\ Len(with_error) > 0
    /\ \E i \in 1..Len(error) : error[i] # 0

\* C8: a Randomize with probability 0.0 leaves every mask bit 0, with 1.0
\* every mask bit 1, and the mask keeps the length of the encoded stream.
C8_MaskExtremes ==
    (pc = "gui" /\ clicked) =>
        /\ Len(error) = Len(encoded)
        /\ ParseF64(prob_str).ok
        /\ (prob_str = "0") => \A i \in 1..Len(error) : error[i] = 0
        /\ (prob_str = "1") => \A i \in 1..Len(error) : error[i] = 255

\* C8's case: a Randomize with probability 1.0 on a mask of two codewords.
C8_Witness ==
    /\ pc = "gui"
    /\ clicked
    /\ prob_str = "1"
    /\ Len(error) = 4
    /\ \A i \in 1..Len(error) : error[i] = 255

\* C9: a mask bit goes from 0 to 1 only in a frame where the button was
\* clicked with a probability text that parses to a number in [0.0, 1.0];
\* with any other text there is no click and the mask is only resized.
C9_OnlyValidClickSetsBits ==
    [][(pc = "gui" /\ ~aborted') =>
          LET p == ParseF64(prob_str')
              valid == p.ok /\ ~p.val.nan /\ 0 <= p.val.tenths /\ p.val.tenths <= 10
          IN  /\ (\E i \in 1..Len(error') : \E t \in 0..7 :
                    /\ Bit(error'[i], t) = 1
                    /\ (i > Len(error) \/ Bit(error[i], t) = 0))
                 => (clicked' /\ valid)
              /\ ~valid =>
                    /\ ~clicked'
                    /\ \A i \in 1..Len(error') :
                         error'[i] = IF i <= Len(error) THEN error[i] ELSE 0]_vars

\* C9's case: a click with probability 0.5 set bits of the mask.
C9_Witness ==
    /\ pc = "gui"
    /\ clicked
    /\ prob_str = "0.5"
    /\ \E i \in 1..Len(error) : error[i] # 0

\* C10 (as stated): total_bits = data_bits + ceil(log2(data_bits +
\* total_bits + 1)) + 1 for the session's code.
C10_StatedInvariant ==
    code.total_bits
        = code.data_bits + CeilLog2(code.data_bits + code.total_bits + 1) + 1

\* C10 (amended): the session's code is the (16,11) descriptor in every
\* state, and total_bits = data_bits + ceil(log2(total_bits)) + 1.
C10_CodeConstant ==
    /\ code = [data_bits |-> 11, total_bits |-> 16]
    /\ code.total_bits = code.data_bits + CeilLog2(code.total_bits) + 1

\* C10's case: frames with an edit and a click have run and the code is
\* still the (16,11) descriptor.
C10_Witness ==
    /\ pc = "gui"
    /\ clicked
    /\ Len(encoded) > 0
    /\ \E i \in 1..Len(error) : error[i] # 0
    /\ code.data_bits = 11
    /\ code.total_bits = 16

=============================================================================
